---- MODULE Spec2Model ----
(***************************************************************************)
(* A model of src/src/http_header.h: the FNV-1a identity tags and          *)
(* header_cast, the seven concrete headers with their parse/write pair,    *)
(* the MIME MediaType value and the parse/parseRaw dispatch.               *)
(*                                                                         *)
(* Text is a sequence of one-character strings, so that splitting,         *)
(* trimming and digit scanning act on characters.  A uint64_t is a         *)
(* sequence of eight bytes, least significant first, because the model     *)
(* checker's integers are narrower than 64 bits; all arithmetic on it is   *)
(* modulo 2^64.                                                            *)
(***************************************************************************)
EXTENDS Integers, Sequences, FiniteSets

----------------------------------------------------------------------------
(* Characters *)

Upper == << "A","B","C","D","E","F","G","H","I","J","K","L","M",
            "N","O","P","Q","R","S","T","U","V","W","X","Y","Z" >>

Lower == << "a","b","c","d","e","f","g","h","i","j","k","l","m",
            "n","o","p","q","r","s","t","u","v","w","x","y","z" >>

Digits == << "0","1","2","3","4","5","6","7","8","9" >>

\* The character code of c (the letters and the hyphen of the header names).
Ord(c) ==
    IF c = "-" THEN 45
    ELSE IF \E i \in 1..26 : Upper[i] = c
         THEN 64 + (CHOOSE i \in 1..26 : Upper[i] = c)
         ELSE 96 + (CHOOSE i \in 1..26 : Lower[i] = c)

IsDigit(c) == \E i \in 1..10 : Digits[i] = c

DigitVal(c) == (CHOOSE i \in 1..10 : Digits[i] = c) - 1

IsSpace(c) == c \in {" ", "\t"}

----------------------------------------------------------------------------
(* uint64_t: eight bytes, least significant first *)

\* Uint64 as a 32-bit conversion: the upper four bytes are lost.
Uint32(xs) == SubSeq(xs, 1, 4) \o <<0, 0, 0, 0>>

\* Conversion to uint64_t: the low eight bytes of xs (the value modulo 2^64).
Uint64(xs) == SubSeq(xs, 1, 8)

U64Zero == <<0, 0, 0, 0, 0, 0, 0, 0>>

\* a * k + d for small k and d, the carries written out byte by byte.
U64MulAddSmall(a, k, d) ==
    LET t1 == a[1] * k + d
        t2 == a[2] * k + (t1 \div 256)
        t3 == a[3] * k + (t2 \div 256)
        t4 == a[4] * k + (t3 \div 256)
        t5 == a[5] * k + (t4 \div 256)
        t6 == a[6] * k + (t5 \div 256)
        t7 == a[7] * k + (t6 \div 256)
        t8 == a[8] * k + (t7 \div 256)
    IN  Uint64(<< t1 % 256, t2 % 256, t3 % 256, t4 % 256,
                  t5 % 256, t6 % 256, t7 % 256, t8 % 256, (t8 \div 256) % 256 >>)

RECURSIVE ColumnSum(_, _, _, _)
\* a[i]*b[k+1-i] + ... + a[k]*b[1]: column k of the schoolbook product.
ColumnSum(a, b, k, i) ==
    IF i > k THEN 0 ELSE a[i] * b[k + 1 - i] + ColumnSum(a, b, k, i + 1)

\* Unsigned 64-bit multiplication (operator* on uint64_t); the columns past
\* the eighth only reach bytes that Uint64 drops.
U64Mul(a, b) ==
    LET t1 == ColumnSum(a, b, 1, 1)
        t2 == ColumnSum(a, b, 2, 1) + (t1 \div 256)
        t3 == ColumnSum(a, b, 3, 1) + (t2 \div 256)
        t4 == ColumnSum(a, b, 4, 1) + (t3 \div 256)
        t5 == ColumnSum(a, b, 5, 1) + (t4 \div 256)
        t6 == ColumnSum(a, b, 6, 1) + (t5 \div 256)
        t7 == ColumnSum(a, b, 7, 1) + (t6 \div 256)
        t8 == ColumnSum(a, b, 8, 1) + (t7 \div 256)
    IN  Uint64(<< t1 % 256, t2 % 256, t3 % 256, t4 % 256,
                  t5 % 256, t6 % 256, t7 % 256, t8 % 256, (t8 \div 256) % 256 >>)

RECURSIVE XorBits(_, _, _)
XorBits(x, y, n) ==
    IF n = 0 THEN 0
    ELSE ((x + y) % 2) + 2 * XorBits(x \div 2, y \div 2, n - 1)

\* value ^ c for a character code c in 0..127: the promoted character has
\* only its low byte set.
U64XorChar(a, c) == [a EXCEPT ![1] = XorBits(a[1], c, 8)]

RECURSIVE U64FromDigits(_)
\* The number a run of decimal digit values denotes, modulo 2^64: the
\* accumulator is multiplied by ten and the digit added, digit by digit.
U64FromDigits(ds) ==
    IF ds = << >> THEN U64Zero
    ELSE U64MulAddSmall(U64FromDigits(SubSeq(ds, 1, Len(ds) - 1)), 10,
                        ds[Len(ds)])

\* a divided by ten: << quotient, remainder >>, by long division from the
\* most significant byte down.
U64DivMod10(a) ==
    LET r8 == a[8]
        r7 == (r8 % 10) * 256 + a[7]
        r6 == (r7 % 10) * 256 + a[6]
        r5 == (r6 % 10) * 256 + a[5]
        r4 == (r5 % 10) * 256 + a[4]
        r3 == (r4 % 10) * 256 + a[3]
        r2 == (r3 % 10) * 256 + a[2]
        r1 == (r2 % 10) * 256 + a[1]
    IN  << << r1 \div 10, r2 \div 10, r3 \div 10, r4 \div 10,
              r5 \div 10, r6 \div 10, r7 \div 10, r8 \div 10 >>, r1 % 10 >>

RECURSIVE U64ToDigits(_)
\* The decimal digit values of a, most significant first, no leading zero
\* (the single digit 0 for zero): what operator<< prints for a uint64_t.
U64ToDigits(a) ==
    LET qr == U64DivMod10(a)
    IN  IF qr[1] = U64Zero THEN << qr[2] >>
        ELSE Append(U64ToDigits(qr[1]), qr[2])

----------------------------------------------------------------------------
(* detail::hash, the compile-time FNV-1a *)

basis == U64FromDigits(<<1,4,6,9,5,9,8,1,0,3,9,3,4,6,6,5,6,0,3,7>>)

prime == U64FromDigits(<<1,0,9,9,5,1,1,6,2,8,2,1,1>>)

\* A C string: the character codes of s followed by the terminating 0.
CStr(s) == [i \in 1..(Len(s) + 1) |-> IF i <= Len(s) THEN Ord(s[i]) ELSE 0]

RECURSIVE hash_one_no_xor(_, _, _)
\* hash_one with the character left out of the fold: value * prime.
hash_one_no_xor(c, remain, value) ==
    IF c = 0 THEN value
    ELSE hash_one_no_xor(remain[1], Tail(remain), U64Mul(value, prime))

RECURSIVE hash_one(_, _, _)
hash_one(c, remain, value) ==
    IF c = 0 THEN value
    ELSE hash_one(remain[1], Tail(remain), U64Mul(U64XorChar(value, c), prime))

hash(str) == hash_one(str[1], Tail(str), basis)

----------------------------------------------------------------------------
(* Text *)

\* The position of the first c in s, 0 when s holds none.
IndexFirst(s, c) ==
    IF \E i \in 1..Len(s) : s[i] = c
    THEN CHOOSE i \in 1..Len(s) : s[i] = c /\ \A j \in 1..(i - 1) : s[j] # c
    ELSE 0

\* The position of the last c in s, 0 when s holds none.
IndexLast(s, c) ==
    IF \E i \in 1..Len(s) : s[i] = c
    THEN CHOOSE i \in 1..Len(s) : s[i] = c /\ \A j \in (i + 1)..Len(s) : s[j] # c
    ELSE 0

\* s without its leading and trailing whitespace.
Trim(s) ==
    IF \A i \in 1..Len(s) : IsSpace(s[i]) THEN << >>
    ELSE LET lo == CHOOSE i \in 1..Len(s) :
                       ~IsSpace(s[i]) /\ \A j \in 1..(i - 1) : IsSpace(s[j])
             hi == CHOOSE i \in 1..Len(s) :
                       ~IsSpace(s[i]) /\ \A j \in (i + 1)..Len(s) : IsSpace(s[j])
         IN  SubSeq(s, lo, hi)

\* The length of the run of decimal digits s starts with.
DigitRun(s) ==
    CHOOSE n \in 0..Len(s) :
        /\ \A i \in 1..n : IsDigit(s[i])
        /\ n < Len(s) => ~IsDigit(s[n + 1])

DigitValues(s) == [i \in 1..Len(s) |-> DigitVal(s[i])]

DigitText(ds) == [i \in 1..Len(ds) |-> Digits[ds[i] + 1]]

RECURSIVE NatFromDigits(_)
NatFromDigits(ds) ==
    IF ds = << >> THEN 0
    ELSE NatFromDigits(SubSeq(ds, 1, Len(ds) - 1)) * 10 + ds[Len(ds)]

RECURSIVE NatToDigits(_)
NatToDigits(n) ==
    IF n < 10 THEN << n >> ELSE Append(NatToDigits(n \div 10), n % 10)

\* What operator<< prints for a signed integer.
IntText(n) ==
    IF n < 0 THEN << "-" >> \o DigitText(NatToDigits(0 - n))
    ELSE DigitText(NatToDigits(n))

RECURSIVE SplitSpace(_)
\* The maximal runs of non-whitespace characters of s, in order.
SplitSpace(s) ==
    LET t == Trim(s)
    IN  IF t = << >> THEN << >>
        ELSE LET end == IF \E i \in 1..Len(t) : IsSpace(t[i])
                        THEN (CHOOSE i \in 1..Len(t) :
                                 IsSpace(t[i]) /\ \A j \in 1..(i - 1) : ~IsSpace(t[j])) - 1
                        ELSE Len(t)
             IN  << SubSeq(t, 1, end) >> \o SplitSpace(SubSeq(t, end + 1, Len(t)))

RECURSIVE JoinSpace(_)
\* The tokens joined by a single space.
JoinSpace(tokens) ==
    IF tokens = << >> THEN << >>
    ELSE IF Len(tokens) = 1 THEN tokens[1]
    ELSE tokens[1] \o << " " >> \o JoinSpace(Tail(tokens))

----------------------------------------------------------------------------
(* 3.5 Content Codings *)

Encoding == {"Gzip", "Compress", "Deflate", "Identity", "Unknown"}

\* The wire literal of each known coding.
ENCODINGS == <<
    << "Gzip", <<"g","z","i","p">> >>,
    << "Compress", <<"c","o","m","p","r","e","s","s">> >>,
    << "Deflate", <<"d","e","f","l","a","t","e">> >>,
    << "Identity", <<"i","d","e","n","t","i","t","y">> >> >>

----------------------------------------------------------------------------
(* Mime *)

MIME_TYPES == <<
    << "Star", <<"*">> >>,
    << "Text", <<"t","e","x","t">> >>,
    << "Image", <<"i","m","a","g","e">> >>,
    << "Audio", <<"a","u","d","i","o">> >>,
    << "Video", <<"v","i","d","e","o">> >>,
    << "Application", <<"a","p","p","l","i","c","a","t","i","o","n">> >>,
    << "Message", <<"m","e","s","s","a","g","e">> >>,
    << "Multipart", <<"m","u","l","t","i","p","a","r","t">> >> >>

\* MIME_SUBTYPES with the SUB_TYPE(Json, "json") row left out.
MIME_SUBTYPES_NoJson == <<
    << "Star", <<"*">> >>,
    << "Plain", <<"p","l","a","i","n">> >>,
    << "Html", <<"h","t","m","l">> >>,
    << "Xhtml", <<"x","h","t","m","l">> >>,
    << "Xml", <<"x","m","l">> >>,
    << "Javascript", <<"j","a","v","a","s","c","r","i","p","t">> >>,
    << "Css", <<"c","s","s">> >>,
    << "FormUrlEncoded", <<"x","-","w","w","w","-","f","o","r","m","-","u","r","l","e","n","c","o","d","e","d">> >>,
    << "Png", <<"p","n","g">> >>,
    << "Gif", <<"g","i","f">> >>,
    << "Bmp", <<"b","m","p">> >>,
    << "Jpeg", <<"j","p","e","g">> >> >>

MIME_SUBTYPES == <<
    << "Star", <<"*">> >>,
    << "Plain", <<"p","l","a","i","n">> >>,
    << "Html", <<"h","t","m","l">> >>,
    << "Xhtml", <<"x","h","t","m","l">> >>,
    << "Xml", <<"x","m","l">> >>,
    << "Javascript", <<"j","a","v","a","s","c","r","i","p","t">> >>,
    << "Css", <<"c","s","s">> >>,
    << "Json", <<"j","s","o","n">> >>,
    << "FormUrlEncoded", <<"x","-","w","w","w","-","f","o","r","m","-","u","r","l","e","n","c","o","d","e","d">> >>,
    << "Png", <<"p","n","g">> >>,
    << "Gif", <<"g","i","f">> >>,
    << "Bmp", <<"b","m","p">> >>,
    << "Jpeg", <<"j","p","e","g">> >> >>

MIME_SUFFIXES == <<
    << "Json", <<"j","s","o","n">> >>,
    << "Ber", <<"b","e","r">> >>,
    << "Der", <<"d","e","r">> >>,
    << "Fastinfoset", <<"f","a","s","t","i","n","f","o","s","e","t">> >>,
    << "Wbxml", <<"w","b","x","m","l">> >>,
    << "Zip", <<"z","i","p">> >>,
    << "Xml", <<"x","m","l">> >> >>

Members(table) == {table[i][1] : i \in 1..Len(table)}

Type == Members(MIME_TYPES) \cup {"Ext"}

Subtype == Members(MIME_SUBTYPES) \cup {"Ext"}

Suffix == Members(MIME_SUFFIXES) \cup {"None", "Ext"}

\* The member of table whose literal is token, other when there is none.
Lookup(table, token, other) ==
    IF \E i \in 1..Len(table) : table[i][2] = token
    THEN table[CHOOSE i \in 1..Len(table) : table[i][2] = token][1]
    ELSE other

\* The literal of member in table.
Literal(table, member) ==
    table[CHOOSE i \in 1..Len(table) : table[i][1] = member][2]

\* MediaType(): the default constructor.
MediaType0 == [top |-> "Ext", sub |-> "Ext", suffix |-> "None"]

\* MediaType(top, sub)
MediaType2(top, sub) == [top |-> top, sub |-> sub, suffix |-> "None"]

\* MediaType(top, sub, suffix)
MediaType3(top, sub, suffix) == [top |-> top, sub |-> sub, suffix |-> suffix]

\* operator== comparing the suffix as well.
MediaTypeEqWithSuffix(lhs, rhs) ==
    lhs.top = rhs.top /\ lhs.sub = rhs.sub /\ lhs.suffix = rhs.suffix

\* operator==(const MediaType&, const MediaType&)
MediaTypeEq(lhs, rhs) == lhs.top = rhs.top /\ lhs.sub = rhs.sub

\* MediaType::fromString / fromRaw on "type/subtype" or
\* "type/subtype+suffix": split on the first '/', then the remainder on the
\* first '+'; each token is looked up in its table.
FromString(str) ==
    LET slash  == IndexFirst(str, "/")
        rest   == SubSeq(str, slash + 1, Len(str))
        plus   == IndexFirst(rest, "+")
        top    == Lookup(MIME_TYPES, SubSeq(str, 1, slash - 1), "Ext")
        subTok == IF plus = 0 THEN rest ELSE SubSeq(rest, 1, plus - 1)
        sub    == Lookup(MIME_SUBTYPES, subTok, "Ext")
    IN  IF plus = 0 THEN MediaType2(top, sub)
        ELSE MediaType3(top, sub,
                 Lookup(MIME_SUFFIXES, SubSeq(rest, plus + 1, Len(rest)), "Ext"))

\* The texts toString may emit for an Ext member.  The enumerations hold no
\* text for Ext, so what is emitted cannot depend on the token that was
\* parsed: nothing, or a fixed placeholder.
ExtTexts == { << >>, <<"e","x","t">> }

TokenTexts(table, member) ==
    IF member = "Ext" THEN ExtTexts ELSE { Literal(table, member) }

\* MediaType::toString: "<top>/<sub>", then "+<suffix>" unless the suffix
\* is None.  A set: one text per choice for the Ext members.
ToString(m) ==
    { t \o << "/" >> \o u \o v :
        t \in TokenTexts(MIME_TYPES, m.top),
        u \in TokenTexts(MIME_SUBTYPES, m.sub),
        v \in IF m.suffix = "None" THEN { << >> }
              ELSE { << "+" >> \o w : w \in TokenTexts(MIME_SUFFIXES, m.suffix) } }

----------------------------------------------------------------------------
(* The concrete headers *)

HeaderTypes == { "ContentLength", "Host", "UserAgent", "Accept",
                 "ContentEncoding", "Server", "ContentType" }

\* NAME(header_name): the name each header class passes to the macro.
Name(H) ==
    CASE H = "ContentLength"   -> <<"C","o","n","t","e","n","t","-","L","e","n","g","t","h">>
      [] H = "Host"            -> <<"H","o","s","t">>
      [] H = "UserAgent"       -> <<"U","s","e","r","-","A","g","e","n","t">>
      [] H = "Accept"          -> <<"A","c","c","e","p","t">>
      [] H = "ContentEncoding" -> <<"C","o","n","t","e","n","t","-","E","n","c","o","d","i","n","g">>
      [] H = "Server"          -> <<"S","e","r","v","e","r">>
      [] H = "ContentType"     -> <<"C","o","n","t","e","n","t","-","T","y","p","e">>

\* static constexpr uint64_t Hash = detail::hash(header_name)
Hash(H) == hash(CStr(Name(H)))

\* The tags, computed once.
HashTable == [H \in HeaderTypes |-> Hash(H)]

\* The port field as an int8_t.
ToInt8(n) ==
    LET m == n % 256 IN IF m >= 128 THEN m - 256 ELSE m

\* Conversion to int16_t, the type of Host::port_.
ToInt16(n) ==
    LET m == n % 65536 IN IF m >= 32768 THEN m - 65536 ELSE m

ContentLength0 == [type |-> "ContentLength", value_ |-> U64Zero]

ContentLength1(val) == [type |-> "ContentLength", value_ |-> val]

Host0 == [type |-> "Host", host_ |-> << >>, port_ |-> -1]

Host2(host, port) == [type |-> "Host", host_ |-> host, port_ |-> port]

UserAgent0 == [type |-> "UserAgent", ua_ |-> << >>]

UserAgent1(ua) == [type |-> "UserAgent", ua_ |-> ua]

Accept0 == [type |-> "Accept", data |-> << >>]

ContentEncoding0 == [type |-> "ContentEncoding", encoding_ |-> "Identity"]

ContentEncoding1(encoding) == [type |-> "ContentEncoding", encoding_ |-> encoding]

Server0 == [type |-> "Server", tokens_ |-> << >>]

Server1(tokens) == [type |-> "Server", tokens_ |-> tokens]

ContentType0 == [type |-> "ContentType", mime_ |-> MediaType0]

ContentType1(mime) == [type |-> "ContentType", mime_ |-> mime]

\* The default-constructed object of each header type.
Default(H) ==
    CASE H = "ContentLength"   -> ContentLength0
      [] H = "Host"            -> Host0
      [] H = "UserAgent"       -> UserAgent0
      [] H = "Accept"          -> Accept0
      [] H = "ContentEncoding" -> ContentEncoding0
      [] H = "Server"          -> Server0
      [] H = "ContentType"     -> ContentType0

\* No object: the pointee of an empty handle.
NoHeader == [type |-> "none"]

----------------------------------------------------------------------------
(* parse and write of each header *)

\* The outcome of a write: the text put on the stream, or no text.
Written(text) == [ok |-> TRUE, text |-> text]

Rejected == [ok |-> FALSE, text |-> << >>]

Parsed(obj) == [ok |-> TRUE, obj |-> obj]

\* A malformed value: the error is reported and the object keeps its value.
Malformed(obj) == [ok |-> FALSE, obj |-> obj]

ContentLength_parse(obj, data) ==
    LET n == DigitRun(data)
    IN  IF n = 0 THEN Malformed(obj)
        ELSE Parsed([obj EXCEPT
                 !.value_ = U64FromDigits(DigitValues(SubSeq(data, 1, n)))])

ContentLength_write(obj) == { Written(DigitText(U64ToDigits(obj.value_))) }

Host_parse(obj, data) ==
    LET pos  == IndexLast(data, ":")
        port == SubSeq(data, pos + 1, Len(data))
    IN  IF pos = 0 THEN Parsed([obj EXCEPT !.host_ = data])
        ELSE IF port # << >> /\ DigitRun(port) = Len(port)
        THEN Parsed([obj EXCEPT
                 !.host_ = SubSeq(data, 1, pos - 1),
                 !.port_ = ToInt16(NatFromDigits(DigitValues(port)))])
        ELSE Malformed(obj)

Host_write(obj) ==
    { Written(IF obj.port_ # -1
              THEN obj.host_ \o << ":" >> \o IntText(obj.port_)
              ELSE obj.host_) }

UserAgent_parse(obj, data) == Parsed([obj EXCEPT !.ua_ = Trim(data)])

UserAgent_write(obj) == { Written(obj.ua_) }

Accept_parseRaw(obj, str) == Parsed([obj EXCEPT !.data = str])

Accept_write(obj) == { Written(obj.data) }

ContentEncoding_parseRaw(obj, str) ==
    Parsed([obj EXCEPT !.encoding_ = Lookup(ENCODINGS, Trim(str), "Unknown")])

\* encodingString: the literal of a known coding.  For Unknown the policy is
\* open: a literal of its own, or no text at all (the write is rejected).
ContentEncoding_write(obj) ==
    IF obj.encoding_ = "Unknown"
    THEN { Written(<<"u","n","k","n","o","w","n">>), Rejected }
    ELSE { Written(Literal(ENCODINGS, obj.encoding_)) }

Server_parse(obj, data) == Parsed([obj EXCEPT !.tokens_ = SplitSpace(data)])

Server_write(obj) == { Written(JoinSpace(obj.tokens_)) }

ContentType_parseRaw(obj, str) == Parsed([obj EXCEPT !.mime_ = FromString(str)])

ContentType_write(obj) == { Written(t) : t \in ToString(obj.mime_) }

\* A call of parse or parseRaw on obj with the value text: the outcome
\* [ok, obj] of the implementation the header overrides.
Parse(obj, text) ==
    CASE obj.type = "ContentLength"   -> ContentLength_parse(obj, text)
      [] obj.type = "Host"            -> Host_parse(obj, text)
      [] obj.type = "UserAgent"       -> UserAgent_parse(obj, text)
      [] obj.type = "Accept"          -> Accept_parseRaw(obj, text)
      [] obj.type = "ContentEncoding" -> ContentEncoding_parseRaw(obj, text)
      [] obj.type = "Server"          -> Server_parse(obj, text)
      [] obj.type = "ContentType"     -> ContentType_parseRaw(obj, text)

\* The outcomes a call of write on obj may have.
Write(obj) ==
    CASE obj.type = "ContentLength"   -> ContentLength_write(obj)
      [] obj.type = "Host"            -> Host_write(obj)
      [] obj.type = "UserAgent"       -> UserAgent_write(obj)
      [] obj.type = "Accept"          -> Accept_write(obj)
      [] obj.type = "ContentEncoding" -> ContentEncoding_write(obj)
      [] obj.type = "Server"          -> Server_write(obj)
      [] obj.type = "ContentType"     -> ContentType_write(obj)

\* Equality of two values of one header type, by the type's own rule.
Equal(a, b) ==
    /\ a.type = b.type
    /\ CASE a.type = "ContentLength"   -> a.value_ = b.value_
         [] a.type = "Host"            -> a.host_ = b.host_ /\ a.port_ = b.port_
         [] a.type = "UserAgent"       -> a.ua_ = b.ua_
         [] a.type = "Accept"          -> a.data = b.data
         [] a.type = "ContentEncoding" -> a.encoding_ = b.encoding_
         [] a.type = "Server"          -> a.tokens_ = b.tokens_
         [] a.type = "ContentType"     -> MediaTypeEq(a.mime_, b.mime_)

----------------------------------------------------------------------------
(* header_cast *)

\* An empty generic handle, and the generic handle to the object.
NullHandle == [ptr |-> "null", const |-> FALSE]

HandleTo(const) == [ptr |-> "hdr", const |-> const]

\* What a call of header_cast<To> gives back.
NoCast == [status |-> "none", type |-> "-", ptr |-> "null", const |-> FALSE]

\* nullptr: the empty concrete handle.
Nothing == [status |-> "nothing", type |-> "-", ptr |-> "null", const |-> FALSE]

Crash == [status |-> "crash", type |-> "-", ptr |-> "null", const |-> FALSE]

\* std::static_pointer_cast<To>(from): a handle of type To to from's object.
Concrete(To, from) ==
    [status |-> "handle", type |-> To, ptr |-> from.ptr, const |-> from.const]

\* header_cast<To>(from), both overloads (the result is read-only exactly
\* when from is).  obj is the object from points to.  from->hash() on an
\* empty handle dereferences a null pointer: undefined behaviour, here the
\* crash, or a call that comes back with either result.
header_cast(To, from, obj) ==
    IF from.ptr = "null"
    THEN { Crash, Nothing, Concrete(To, from) }
    ELSE { IF HashTable[To] = HashTable[obj.type]
           THEN Concrete(To, from)
           ELSE Nothing }

----------------------------------------------------------------------------
(* The values and texts the model draws from *)

\* Values for ContentLength(uint64_t): 0, 5, 12345, 2^32, 2^64 - 1.
LengthValues ==
    { U64FromDigits(ds) : ds \in
        { <<0>>, <<5>>, <<1,2,3,4,5>>, <<4,2,9,4,9,6,7,2,9,6>>,
          <<1,8,4,4,6,7,4,4,0,7,3,7,0,9,5,5,1,6,1,5>> } }

HostNames ==
    { << "e", "x", "a", "m", "p", "l", "e", ".", "c", "o", "m" >>,
      << "a", ":", "b" >> }

\* Values for the int16_t port of Host(host, port).
Ports == { -32768, -2, -1, 0, 80, 8080, 32767 }

TokenLists ==
    { << << "f", "o", "o", "/", "1", ".", "0" >> >>,
      << << "f", "o", "o", "/", "1", ".", "0" >>, << "b", "a", "r", "/", "2", ".", "0" >> >>,
      << << "a", " ", "b" >> >>,
      << << >> >> }

MediaTypes ==
    { MediaType3(t, u, v) : t \in {"Application", "Text", "Ext"},
                            u \in {"Json", "Plain", "Ext"},
                            v \in {"None", "Json", "Ext"} }

\* The objects the constructors of the seven headers build.
Constructible ==
    { Default(H) : H \in HeaderTypes }
    \cup { ContentLength1(v) : v \in LengthValues }
    \cup { Host2(h, p) : h \in HostNames, p \in Ports }
    \cup { UserAgent1(<<"c","u","r","l">>) }
    \cup { ContentEncoding1(e) : e \in Encoding }
    \cup { Server1(ts) : ts \in TokenLists }
    \cup { ContentType1(m) : m \in MediaTypes }

ContentLengthTexts ==
    { << "1", "2", "3", "4", "5" >>,
      << "a", "b", "c" >>,
      << >>,
      << "0" >>,
      << "0", "0", "7" >>,
      << "1", "2", "a", "b" >>,
      << " ", "4", "2" >>,
      << "4", "2", "9", "4", "9", "6", "7", "2", "9", "6" >>,
      << "1", "8", "4", "4", "6", "7", "4", "4", "0", "7", "3", "7", "0", "9", "5", "5", "1", "6", "1", "5" >>,
      << "1", "8", "4", "4", "6", "7", "4", "4", "0", "7", "3", "7", "0", "9", "5", "5", "1", "6", "1", "6" >> }

HostTexts ==
    { << "e", "x", "a", "m", "p", "l", "e", ".", "c", "o", "m", ":", "8", "0", "8", "0" >>,
      << "e", "x", "a", "m", "p", "l", "e", ".", "c", "o", "m" >>,
      << "e", "x", "a", "m", "p", "l", "e", ".", "c", "o", "m", ":", "4", "0", "0", "0", "0" >>,
      << "e", "x", "a", "m", "p", "l", "e", ".", "c", "o", "m", ":", "6", "5", "5", "3", "5" >>,
      << "a", ":", "b", ":", "8", "0" >>,
      << "e", "x", "a", "m", "p", "l", "e", ".", "c", "o", "m", ":" >>,
      << "e", "x", "a", "m", "p", "l", "e", ".", "c", "o", "m", ":", "8", "a" >> }

UserAgentTexts ==
    { << " ", "c", "u", "r", "l", " " >>,
      << "c", "u", "r", "l" >> }

AcceptTexts ==
    { << "*", "/", "*" >>,
      << "t", "e", "x", "t", "/", "h", "t", "m", "l" >> }

ContentEncodingTexts ==
    { << "g", "z", "i", "p" >>,
      << "c", "o", "m", "p", "r", "e", "s", "s" >>,
      << "d", "e", "f", "l", "a", "t", "e" >>,
      << "i", "d", "e", "n", "t", "i", "t", "y" >>,
      << "b", "r", "o", "t", "l", "i" >>,
      << "G", "Z", "I", "P" >>,
      << " ", "g", "z", "i", "p", " " >>,
      << "u", "n", "k", "n", "o", "w", "n" >>,
      << >> }

ServerTexts ==
    { << "f", "o", "o", "/", "1", ".", "0", " ", "b", "a", "r", "/", "2", ".", "0" >>,
      << "f", "o", "o", "/", "1", ".", "0" >>,
      << >>,
      << " ", "f", "o", "o", "/", "1", ".", "0", " ", " ", "b", "a", "r", "/", "2", ".", "0", " " >> }

ContentTypeTexts ==
    { << "a", "p", "p", "l", "i", "c", "a", "t", "i", "o", "n", "/", "j", "s", "o", "n" >>,
      << "t", "e", "x", "t", "/", "p", "l", "a", "i", "n" >>,
      << "a", "p", "p", "l", "i", "c", "a", "t", "i", "o", "n", "/", "x", "h", "t", "m", "l", "+", "x", "m", "l" >>,
      << "*", "/", "*" >>,
      << "f", "o", "o", "/", "b", "a", "r" >>,
      << "b", "a", "z", "/", "b", "a", "r" >>,
      << "a", "p", "p", "l", "i", "c", "a", "t", "i", "o", "n", "/", "v", "n", "d", "+", "j", "s", "o", "n" >>,
      << "t", "e", "x", "t", "/", "h", "t", "m", "l", "+", "f", "o", "o" >>,
      << "t", "e", "x", "t", "/", "h", "t", "m", "l", "+", "b", "a", "r" >>,
      << "T", "e", "x", "t", "/", "p", "l", "a", "i", "n" >> }

\* The value texts handed to the parse entry point of a header of type H.
Texts(H) ==
    CASE H = "ContentLength"   -> ContentLengthTexts
      [] H = "Host"            -> HostTexts
      [] H = "UserAgent"       -> UserAgentTexts
      [] H = "Accept"          -> AcceptTexts
      [] H = "ContentEncoding" -> ContentEncodingTexts
      [] H = "Server"          -> ServerTexts
      [] H = "ContentType"     -> ContentTypeTexts

----------------------------------------------------------------------------
(* State *)

VARIABLES
    hdr,     \* the header object on the heap, NoHeader when there is none
    from,    \* the generic handle (shared_ptr<Header>, or <const Header>)
    to,      \* what the last header_cast gave back
    wire,    \* the outcome of the last write
    copy,    \* the outcome of parsing wire into a fresh object
    last,    \* the last call: its operation, arguments and the value before
    ma,      \* three MediaType values, each with the text it was parsed from
    mb,
    mc,
    cmp,     \* the last comparison or rendering of MediaType values
    call     \* a parse / parseRaw call on its way through the dispatch

vars == << hdr, from, to, wire, copy, last, ma, mb, mc, cmp, call >>

headerVars == << hdr, from, to, wire, copy, last >>

mimeVars == << ma, mb, mc, cmp >>

NoCopy == [ok |-> FALSE, obj |-> NoHeader]

NoLast ==
    [op |-> "none", to |-> "-", text |-> << >>, before |-> NoHeader,
     ok |-> TRUE, via |-> "-"]

NoMime == [set |-> FALSE, parsed |-> FALSE, text |-> << >>, mime |-> MediaType0]

NoCmp == [op |-> "none", lhs |-> "-", rhs |-> "-", result |-> FALSE, text |-> << >>]

NoCall == [pc |-> "idle", variant |-> "-", entry |-> "-", forwards |-> 0,
           text |-> << >>, obj |-> NoHeader]

Init ==
    /\ hdr = NoHeader
    /\ from = NullHandle
    /\ to = NoCast
    /\ wire = Rejected
    /\ copy = NoCopy
    /\ last = NoLast
    /\ ma = NoMime
    /\ mb = NoMime
    /\ mc = NoMime
    /\ cmp = NoCmp
    /\ call = NoCall

----------------------------------------------------------------------------
(* The life of a header object: built, shared, cast, parsed, written *)

\* std::make_shared of a header built by one of its constructors, handed
\* out as a generic handle, read-only or not.
Construct(obj, const) ==
    /\ hdr' = obj
    /\ from' = HandleTo(const)
    /\ to' = NoCast
    /\ wire' = Rejected
    /\ copy' = NoCopy
    /\ last' = [NoLast EXCEPT !.op = "construct"]
    /\ UNCHANGED << mimeVars, call >>

\* The registry's path: the matching header is default-constructed, its
\* parse entry point is called on the value text, and the object is shared.
Register(H, text, const) ==
    LET r == Parse(Default(H), text)
    IN  /\ hdr' = r.obj
        /\ from' = HandleTo(const)
        /\ to' = NoCast
        /\ wire' = Rejected
        /\ copy' = NoCopy
        /\ last' = [NoLast EXCEPT !.op = "parse", !.via = "new", !.text = text,
                                  !.before = Default(H), !.ok = r.ok]
        /\ UNCHANGED << mimeVars, call >>

\* The holder resets its handle; the object goes with the last handle.
Release ==
    /\ from.ptr = "hdr"
    /\ hdr' = NoHeader
    /\ from' = NullHandle
    /\ to' = NoCast
    /\ wire' = Rejected
    /\ copy' = NoCopy
    /\ last' = [NoLast EXCEPT !.op = "release"]
    /\ UNCHANGED << mimeVars, call >>

\* header_cast<To>(from)
Cast(To) ==
    /\ \E r \in header_cast(To, from, hdr) : to' = r
    /\ wire' = Rejected
    /\ copy' = NoCopy
    /\ last' = [NoLast EXCEPT !.op = "cast", !.to = To, !.before = hdr]
    /\ UNCHANGED << hdr, from, mimeVars, call >>

\* A holder calls parse / parseRaw through a handle that is not read-only:
\* the generic handle, or the concrete one header_cast gave back.
ParseVia(via, text) ==
    /\ \/ via = "from" /\ from.ptr = "hdr" /\ ~from.const
       \/ via = "to" /\ from.ptr = "hdr" /\ to.status = "handle" /\ ~to.const
                     /\ to.type = hdr.type
    /\ text \in Texts(hdr.type)
    /\ LET r == Parse(hdr, text)
       IN  /\ hdr' = r.obj
           /\ last' = [NoLast EXCEPT !.op = "parse", !.via = via, !.text = text,
                                     !.before = hdr, !.ok = r.ok]
    /\ wire' = Rejected
    /\ copy' = NoCopy
    /\ UNCHANGED << from, to, mimeVars, call >>

\* write(stream) through the generic handle.
WriteOut ==
    /\ from.ptr = "hdr"
    /\ \E w \in Write(hdr) : wire' = w
    /\ to' = NoCast
    /\ copy' = NoCopy
    /\ last' = [NoLast EXCEPT !.op = "write", !.before = hdr]
    /\ UNCHANGED << hdr, from, mimeVars, call >>

\* The written text is parsed into a fresh object of the same header type.
Reparse ==
    /\ last.op = "write"
    /\ wire.ok
    /\ copy' = Parse(Default(hdr.type), wire.text)
    /\ last' = [NoLast EXCEPT !.op = "reparse", !.text = wire.text, !.before = hdr]
    /\ UNCHANGED << hdr, from, to, wire, mimeVars, call >>

Next ==
    \/ \E obj \in Constructible, const \in BOOLEAN : Construct(obj, const)
    \/ \E H \in HeaderTypes, const \in BOOLEAN :
           \E text \in Texts(H) : Register(H, text, const)
    \/ Release
    \/ \E To \in HeaderTypes : Cast(To)
    \/ \E via \in {"from", "to"} :
           \E text \in UNION { Texts(H) : H \in HeaderTypes } : ParseVia(via, text)
    \/ WriteOut
    \/ Reparse

Spec == Init /\ [][Next]_vars

----------------------------------------------------------------------------
(* MediaType values: built, parsed, compared, rendered *)

MimeSamples ==
    { MediaType0,
      MediaType2("Application", "Json"),
      MediaType3("Application", "Json", "Json"),
      MediaType3("Application", "Xml", "Json"),
      MediaType3("Text", "Json", "Ext") }

MimeTexts ==
    { << "a", "p", "p", "l", "i", "c", "a", "t", "i", "o", "n", "/", "j", "s", "o", "n" >>,
      << "a", "p", "p", "l", "i", "c", "a", "t", "i", "o", "n", "/", "j", "s", "o", "n", "+", "x", "m", "l" >>,
      << "f", "o", "o", "/", "b", "a", "r" >>,
      << "b", "a", "z", "/", "b", "a", "r" >>,
      << "t", "e", "x", "t", "/", "h", "t", "m", "l", "+", "f", "o", "o" >> }

MimeSlots == {"a", "b", "c"}

Slot(s) == CASE s = "a" -> ma [] s = "b" -> mb [] s = "c" -> mc

\* The value of slot name once slot s has taken the value v.
Put(name, s, v) == IF s = name THEN v ELSE Slot(name)

\* One of the MediaType constructors.
MakeMime(s, m) ==
    LET v == [set |-> TRUE, parsed |-> FALSE, text |-> << >>, mime |-> m]
    IN  /\ ma' = Put("a", s, v)
        /\ mb' = Put("b", s, v)
        /\ mc' = Put("c", s, v)
        /\ cmp' = NoCmp
        /\ UNCHANGED << headerVars, call >>

\* MediaType::fromString(text)
ParseMime(s, text) ==
    LET v == [set |-> TRUE, parsed |-> TRUE, text |-> text,
              mime |-> FromString(text)]
    IN  /\ ma' = Put("a", s, v)
        /\ mb' = Put("b", s, v)
        /\ mc' = Put("c", s, v)
        /\ cmp' = NoCmp
        /\ UNCHANGED << headerVars, call >>

\* lhs == rhs
Compare(l, r) ==
    /\ Slot(l).set /\ Slot(r).set
    /\ cmp' = [NoCmp EXCEPT !.op = "eq", !.lhs = l, !.rhs = r,
                            !.result = MediaTypeEq(Slot(l).mime, Slot(r).mime)]
    /\ UNCHANGED << headerVars, ma, mb, mc, call >>

\* toString() of the value in slot l
Render(l) ==
    /\ Slot(l).set
    /\ \E t \in ToString(Slot(l).mime) :
           cmp' = [NoCmp EXCEPT !.op = "toString", !.lhs = l, !.text = t]
    /\ UNCHANGED << headerVars, ma, mb, mc, call >>

NextMime ==
    \/ \E s \in MimeSlots, m \in MimeSamples : MakeMime(s, m)
    \/ \E s \in MimeSlots, text \in MimeTexts : ParseMime(s, text)
    \/ \E l \in MimeSlots, r \in MimeSlots : Compare(l, r)
    \/ \E l \in MimeSlots : Render(l)

SpecMime == Init /\ [][NextMime]_vars

----------------------------------------------------------------------------
(* The two parse entry points and their forwarding defaults *)

\* Overrides with Accept::parseRaw not overriding the base entry point.
OverridesWithoutAccept(H) ==
    CASE H = "ContentLength"   -> { "parse" }
      [] H = "Host"            -> { "parse" }
      [] H = "UserAgent"       -> { "parse" }
      [] H = "Accept"          -> { }
      [] H = "ContentEncoding" -> { "parseRaw" }
      [] H = "Server"          -> { "parse" }
      [] H = "ContentType"     -> { "parseRaw" }

\* The entry points each header class overrides.
Overrides(H) ==
    CASE H = "ContentLength"   -> { "parse" }
      [] H = "Host"            -> { "parse" }
      [] H = "UserAgent"       -> { "parse" }
      [] H = "Accept"          -> { "parseRaw" }
      [] H = "ContentEncoding" -> { "parseRaw" }
      [] H = "Server"          -> { "parse" }
      [] H = "ContentType"     -> { "parseRaw" }

\* The forwarding steps after which the model stops following a call.
MaxForwards == 3

\* A caller invokes parse(text) or parseRaw(bytes, length) on a fresh header.
CallEntry(H, entry, text) ==
    /\ call.pc \in { "idle", "returned" }
    /\ call' = [pc |-> "dispatch", variant |-> H, entry |-> entry, forwards |-> 0,
                text |-> text, obj |-> Default(H)]
    /\ UNCHANGED << headerVars, mimeVars >>

\* Header::parse, the default: forwards to parseRaw(data.c_str(), data.size()).
Header_parse ==
    /\ call.pc = "dispatch"
    /\ call.entry = "parse"
    /\ "parse" \notin Overrides(call.variant)
    /\ call.forwards < MaxForwards
    /\ call' = [call EXCEPT !.entry = "parseRaw", !.forwards = @ + 1]
    /\ UNCHANGED << headerVars, mimeVars >>

\* Header::parseRaw, the default: forwards to parse(std::string(str, len)).
Header_parseRaw ==
    /\ call.pc = "dispatch"
    /\ call.entry = "parseRaw"
    /\ "parseRaw" \notin Overrides(call.variant)
    /\ call.forwards < MaxForwards
    /\ call' = [call EXCEPT !.entry = "parse", !.forwards = @ + 1]
    /\ UNCHANGED << headerVars, mimeVars >>

\* The header's own implementation of the entry point runs and returns.
Implementation ==
    /\ call.pc = "dispatch"
    /\ call.entry \in Overrides(call.variant)
    /\ call' = [call EXCEPT !.pc = "returned", !.obj = Parse(call.obj, call.text).obj]
    /\ UNCHANGED << headerVars, mimeVars >>

NextDispatch ==
    \/ \E H \in HeaderTypes, entry \in { "parse", "parseRaw" } :
           \E text \in Texts(H) : CallEntry(H, entry, text)
    \/ Header_parse
    \/ Header_parseRaw
    \/ Implementation

SpecDispatch == Init /\ [][NextDispatch]_vars

----------------------------------------------------------------------------
(* Properties *)

\* C1: header_cast<H> on a non-empty generic handle whose object has the
\* concrete type G gives a handle to that same object when G = H and the
\* empty handle when G # H; for that the seven FNV-1a tags are pairwise
\* distinct.
C1_CastByTag ==
    /\ \A G \in HeaderTypes, H \in HeaderTypes :
           G # H => HashTable[G] # HashTable[H]
    /\ (last.op = "cast" /\ from.ptr = "hdr") =>
           to = IF last.to = hdr.type THEN Concrete(last.to, from) ELSE Nothing

C1_Witness ==
    /\ last.op = "cast" /\ from.ptr = "hdr"
    /\ hdr.type = "Server" /\ to.status = "handle" /\ to.ptr = "hdr"

\* C2: header_cast never panics: for every handle a caller can pass, the
\* empty one included, the call completes and gives a handle or nothing.
C2_CastNeverPanics ==
    last.op = "cast" => to.status \in { "handle", "nothing" }

RoundTripTypes ==
    { "ContentLength", "Host", "Server", "ContentEncoding", "ContentType" }

\* The written text parsed into a fresh object gave a value equal to hdr.
RoundTrips == copy.ok /\ Equal(copy.obj, hdr)

ReadsBack(obj) ==
    CASE obj.type = "Host" ->
             \/ obj.port_ >= 0
             \/ obj.port_ = -1 /\ IndexFirst(obj.host_, ":") = 0
      [] obj.type = "Server" ->
             \A i \in 1..Len(obj.tokens_) :
                 /\ obj.tokens_[i] # << >>
                 /\ \A j \in 1..Len(obj.tokens_[i]) : ~IsSpace(obj.tokens_[i][j])
      [] OTHER -> TRUE

SetSlots == { s \in MimeSlots : Slot(s).set }

\* C4: a == b on MediaType holds exactly when the types and the subtypes
\* agree, whatever the suffixes are; values that differ only in suffix are
\* equal; the relation is reflexive, symmetric and transitive.
C4_EqualityIgnoresSuffix ==
    /\ cmp.op = "eq" =>
           cmp.result = (/\ Slot(cmp.lhs).mime.top = Slot(cmp.rhs).mime.top
                         /\ Slot(cmp.lhs).mime.sub = Slot(cmp.rhs).mime.sub)
    /\ \A p \in SetSlots :
           /\ MediaTypeEq(Slot(p).mime, Slot(p).mime)
           /\ \A v \in Suffix :
                  MediaTypeEq(Slot(p).mime, [Slot(p).mime EXCEPT !.suffix = v])
    /\ \A p \in SetSlots, q \in SetSlots :
           MediaTypeEq(Slot(p).mime, Slot(q).mime)
               => MediaTypeEq(Slot(q).mime, Slot(p).mime)
    /\ \A p \in SetSlots, q \in SetSlots, r \in SetSlots :
           (MediaTypeEq(Slot(p).mime, Slot(q).mime)
               /\ MediaTypeEq(Slot(q).mime, Slot(r).mime))
               => MediaTypeEq(Slot(p).mime, Slot(r).mime)

C4_Witness ==
    /\ cmp.op = "eq" /\ cmp.result
    /\ Slot(cmp.lhs).mime = MediaType3("Application", "Json", "Json")
    /\ Slot(cmp.rhs).mime = MediaType3("Application", "Json", "None")

\* The slots whose value came from fromString.
ParsedSlots == { s \in MimeSlots : Slot(s).parsed }

\* C5: an unknown token stays on the Ext member with its text, so that
\* fromString(s).toString() = s for every well-formed s, and two different
\* unknown tokens stay distinguishable.
C5_ExtKeepsText ==
    /\ (cmp.op = "toString" /\ Slot(cmp.lhs).parsed)
           => cmp.text = Slot(cmp.lhs).text
    /\ \A p \in ParsedSlots, q \in ParsedSlots :
           Slot(p).text # Slot(q).text => Slot(p).mime # Slot(q).mime

\* The coding a token names, literal by literal.
NamedEncoding(token) ==
    CASE token = <<"g","z","i","p">>                 -> "Gzip"
      [] token = <<"c","o","m","p","r","e","s","s">> -> "Compress"
      [] token = <<"d","e","f","l","a","t","e">>     -> "Deflate"
      [] token = <<"i","d","e","n","t","i","t","y">> -> "Identity"
      [] OTHER                                       -> "Unknown"

\* The member a token stands for in table: its row's, Ext without a row.
Stands(table, member, token) ==
    IF member = "Ext"
    THEN \A i \in 1..Len(table) : table[i][2] # token
    ELSE \E i \in 1..Len(table) : table[i][1] = member /\ table[i][2] = token

\* C6: parsing an enumerable value never fails.  ContentEncoding::parseRaw
\* gives the member whose lowercase literal is the (trimmed) token and
\* Unknown for any other; MediaType parsing gives each of type, subtype and
\* suffix the member of its table or Ext, and None for an absent suffix.
C6_EnumerableParse ==
    /\ (last.op = "parse" /\ hdr.type = "ContentEncoding") =>
           /\ last.ok
           /\ hdr.encoding_ = NamedEncoding(Trim(last.text))
    /\ (last.op = "parse" /\ hdr.type = "ContentType") =>
           LET slash == IndexFirst(last.text, "/")
               rest  == SubSeq(last.text, slash + 1, Len(last.text))
               plus  == IndexFirst(rest, "+")
           IN  /\ last.ok
               /\ Stands(MIME_TYPES, hdr.mime_.top, SubSeq(last.text, 1, slash - 1))
               /\ plus = 0 =>
                      /\ hdr.mime_.suffix = "None"
                      /\ Stands(MIME_SUBTYPES, hdr.mime_.sub, rest)
               /\ plus # 0 =>
                      /\ hdr.mime_.suffix # "None"
                      /\ Stands(MIME_SUBTYPES, hdr.mime_.sub, SubSeq(rest, 1, plus - 1))
                      /\ Stands(MIME_SUFFIXES, hdr.mime_.suffix,
                                SubSeq(rest, plus + 1, Len(rest)))
               /\ last.text = << "a", "p", "p", "l", "i", "c", "a", "t", "i", "o", "n", "/", "j", "s", "o", "n" >>
                      => hdr.mime_ = MediaType3("Application", "Json", "None")
               /\ last.text = << "a", "p", "p", "l", "i", "c", "a", "t", "i", "o", "n", "/", "x", "h", "t", "m", "l", "+", "x", "m", "l" >>
                      => hdr.mime_ = MediaType3("Application", "Xhtml", "Xml")
               /\ last.text = << "a", "p", "p", "l", "i", "c", "a", "t", "i", "o", "n", "/", "v", "n", "d", "+", "j", "s", "o", "n" >>
                      => hdr.mime_ = MediaType3("Application", "Ext", "Json")
               /\ last.text = << "f", "o", "o", "/", "b", "a", "r" >>
                      => hdr.mime_ = MediaType3("Ext", "Ext", "None")

C6_Witness ==
    /\ last.op = "parse" /\ last.ok
    /\ hdr.type = "ContentEncoding" /\ hdr.encoding_ = "Unknown"
    /\ last.text = << "b", "r", "o", "t", "l", "i" >>

\* The digits of a run without its leading zeros (one 0 kept).
RECURSIVE StripZeros(_)
StripZeros(run) ==
    IF Len(run) > 1 /\ run[1] = "0" THEN StripZeros(Tail(run)) ELSE run

\* C7: ContentLength::parse on a text that starts with a run of digits sets
\* value() to the number the run denotes; on an empty text or one whose
\* first character is no digit it reports a malformed value and the value
\* held before stays.
C7_ContentLengthParse ==
    (last.op = "parse" /\ hdr.type = "ContentLength") =>
        LET n   == DigitRun(last.text)
            run == SubSeq(last.text, 1, n)
        IN  IF n = 0
            THEN ~last.ok /\ hdr = last.before
            ELSE /\ last.ok
                 /\ n <= 19 => DigitText(U64ToDigits(hdr.value_)) = StripZeros(run)
                 /\ run = << "1", "2", "3", "4", "5" >>
                        => hdr.value_ = <<57, 48, 0, 0, 0, 0, 0, 0>>
                 /\ run = << "1", "8", "4", "4", "6", "7", "4", "4", "0", "7", "3", "7", "0", "9", "5", "5", "1", "6", "1", "5" >>
                        => hdr.value_ = <<255, 255, 255, 255, 255, 255, 255, 255>>

C7_Witness ==
    /\ last.op = "parse" /\ hdr.type = "ContentLength" /\ ~last.ok
    /\ last.text = << "a", "b", "c" >>
    /\ hdr.value_ = <<57, 48, 0, 0, 0, 0, 0, 0>>

\* C8: Host::parse splits on the last ':': for "<host>:<digits>" host() is
\* the text before it and port() the decimal value of the digits; without a
\* ':' host() is the whole text and port() stays -1; write emits "<host>"
\* when the port is -1 and "<host>:<port>" otherwise.
C8_HostParseWrite ==
    /\ (last.op = "parse" /\ last.via = "new" /\ hdr.type = "Host") =>
           LET pos    == IndexLast(last.text, ":")
               digits == SubSeq(last.text, pos + 1, Len(last.text))
           IN  /\ pos = 0 => hdr.host_ = last.text /\ hdr.port_ = -1
               /\ (pos # 0 /\ digits # << >> /\ DigitRun(digits) = Len(digits)) =>
                      /\ hdr.host_ = SubSeq(last.text, 1, pos - 1)
                      /\ hdr.port_ = NatFromDigits(DigitValues(digits))
    /\ (last.op = "write" /\ hdr.type = "Host") =>
           wire.text = IF hdr.port_ = -1 THEN hdr.host_
                       ELSE hdr.host_ \o << ":" >> \o IntText(hdr.port_)

\* C9: once a header is built and shared, no operation reachable through a
\* shared handle, generic or concrete, changes the value the other holders
\* read.
C9_SharedValueNeverChanges ==
    (last.op = "parse" /\ last.via \in { "from", "to" }) => hdr = last.before

\* C10: a call of parse or parseRaw on any of the seven headers reaches an
\* overriding implementation after at most one forwarding step: every
\* header overrides one of the two, and the defaults never hand the call
\* back and forth.
C10_DispatchReachesOverride ==
    /\ \A H \in HeaderTypes : Overrides(H) # { }
    /\ call.forwards <= 1
    /\ (call.pc = "dispatch" /\ call.forwards = 1)
           => call.entry \in Overrides(call.variant)
    /\ call.pc = "returned" => call.entry \in Overrides(call.variant)

C10_Witness ==
    /\ call.pc = "returned" /\ call.forwards = 1
    /\ call.variant = "Accept" /\ call.entry = "parseRaw"

====
